---------------------------- MODULE Spec2Model ----------------------------
(***************************************************************************)
(* Model of ContentFlowCore (src/url_collection/scrape.py): the content    *)
(* scoring engine, its originality cache and its shared TF-IDF vectorizer; *)
(* of DIYCrawler.extract_project (src/crawler.py): the retry loop around   *)
(* the crawl; and of main (src/main.py): the URLs processed concurrently   *)
(* under a semaphore.                                                      *)
(*                                                                         *)
(* A text is a sequence of tokens.  A token is either a whitespace-        *)
(* delimited word of the Lexicon or the paragraph break PARA ("\n\n");     *)
(* consecutive words are separated by one blank.  Scores are exact         *)
(* rationals <<numerator, denominator>>; only the cosine similarity, which *)
(* needs a square root, is rounded (down, to 1/SimScale).                  *)
(***************************************************************************)
EXTENDS Integers, Sequences, FiniteSets

VARIABLES
    content_cache,  \* self.content_cache: identifier -> cached text
    vocabulary,     \* fitted state of self.vectorizer: UNFITTED or Fitted(terms)
    pc,             \* per analyze_content call: "idle" or "crawling" (awaiting arun)
    args,           \* the suspended call's arguments (target_platforms, content_type)
    atCall,         \* the cache as it was when the call was made
    ret,            \* outcome of the task's last analyze_content call
    crawl_pc,       \* extract_project: "idle", "entering", "arun", "sleeping" or "done"
    attempt,        \* extract_project: the loop variable of `for attempt in range(max_attempts)`
    crawl_log,      \* extract_project: the crawl attempts and sleeps so far, in order
    crawl_ret,      \* extract_project: how the call ended
    task_pc,        \* main: per URL, the position of its process_url task
    semaphore,      \* main: the value of asyncio.Semaphore(3)
    report          \* main: per URL, what process_url got and what it printed

coreVars == <<content_cache, vocabulary, pc, args, atCall, ret>>

crawlVars == <<crawl_pc, attempt, crawl_log, crawl_ret>>

mainVars == <<task_pc, semaphore, report>>

vars == <<content_cache, vocabulary, pc, args, atCall, ret,
          crawl_pc, attempt, crawl_log, crawl_ret, task_pc, semaphore, report>>

-----------------------------------------------------------------------------
(* Bounds *)

\* analyses are started only while fewer than MaxCache documents are cached
\* or in flight
MaxCache == 2

\* longest target_platforms list
MaxPlatforms == 2

\* the cosine similarity is rounded down to a multiple of 1/SimScale
SimScale == 100

\* how many URLs main is given
NumUrls == 4

-----------------------------------------------------------------------------
(* Exact rational arithmetic *)

Abs(i) == IF i < 0 THEN -i ELSE i

RECURSIVE Gcd(_, _)
Gcd(a, b) == IF b = 0 THEN a ELSE Gcd(b, a % b)

R(n, d) ==
    LET g == Gcd(Abs(n), d)
    IN  <<n \div g, d \div g>>

RInt(i) == <<i, 1>>

RAdd(x, y) ==
    LET g == Gcd(x[2], y[2])
        l == (x[2] \div g) * y[2]
    IN  R(x[1] * (l \div x[2]) + y[1] * (l \div y[2]), l)

RNeg(x) == <<-x[1], x[2]>>

RSub(x, y) == RAdd(x, RNeg(y))

RMul(x, y) ==
    LET a == R(x[1], y[2])
        b == R(y[1], x[2])
    IN  <<a[1] * b[1], a[2] * b[2]>>

\* x / i for an integer i > 0
RDivInt(x, i) == RMul(x, R(1, i))

RLe(x, y) == x[1] * y[2] <= y[1] * x[2]

RMin(x, y) == IF RLe(x, y) THEN x ELSE y

RMax(x, y) == IF RLe(x, y) THEN y ELSE x

RAbs(x) == <<Abs(x[1]), x[2]>>

RECURSIVE RSum(_)
RSum(s) == IF s = <<>> THEN RInt(0) ELSE RAdd(Head(s), RSum(Tail(s)))

\* equality of two rationals, by their lowest terms
REq(x, y) == R(x[1], x[2]) = R(y[1], y[2])

InUnit(x) == RLe(RInt(0), x) /\ RLe(x, RInt(1))

\* largest r in lo..hi with r*r <= x, by bisection (lo*lo <= x)
RECURSIVE IsqrtIn(_, _, _)
IsqrtIn(x, lo, hi) ==
    IF lo = hi THEN lo
    ELSE LET mid == (lo + hi + 1) \div 2
         IN  IF mid * mid <= x THEN IsqrtIn(x, mid, hi) ELSE IsqrtIn(x, lo, mid - 1)

\* largest r with r*r <= x, for 0 <= x <= n*n
Isqrt(x, n) == IsqrtIn(x, 0, n)

-----------------------------------------------------------------------------
(* Texts *)

PARA == "\n\n"

\* What the code reads of a word: its length, its '.' characters, the terms
\* TfidfVectorizer's token pattern extracts from it, the keywords of the
\* code's tables that are substrings of its lower-cased form, and the
\* character classes the scorers look for.
Word(chars, dots, terms, subs, marks) ==
    [chars |-> chars, dots |-> dots, terms |-> terms, subs |-> subs, marks |-> marks]

Lexicon ==
    [w \in {"wood", "Share?", "strategy.", "amazing", "a", "?", "fire", "2026", "-",
            "tech", "finance"} |->
        CASE w = "wood"      -> Word(4, 0, <<"wood">>, {}, {})
          [] w = "Share?"    -> Word(6, 0, <<"share">>, {"share"}, {"?"})
          [] w = "strategy." -> Word(9, 1, <<"strategy">>, {"strategy"}, {})
          [] w = "amazing"   -> Word(7, 0, <<"amazing">>, {"amazing"}, {})
          [] w = "a"         -> Word(1, 0, <<>>, {}, {})
          [] w = "?"         -> Word(1, 0, <<>>, {}, {"?"})
          [] w = "fire"      -> Word(1, 0, <<>>, {}, {"emoji"})   \* the one character U+1F525
          [] w = "2026"      -> Word(4, 0, <<"2026">>, {}, {"digit", "year"})
          [] w = "-"         -> Word(1, 0, <<>>, {}, {"bullet"})
          [] w = "tech"      -> Word(4, 0, <<"tech">>, {"tech"}, {})
          [] w = "finance"   -> Word(7, 0, <<"finance">>, {"finance"}, {})]

\* feature names come out of the vectorizer in sorted order
TermOrder == <<"2026", "amazing", "finance", "share", "strategy", "tech", "wood">>

TermRank(term) == CHOOSE i \in 1..Len(TermOrder) : TermOrder[i] = term

Texts ==
    { <<>>,
      <<"a">>,
      <<"?">>,
      <<"wood">>,
      <<"strategy.", "wood">>,
      <<"wood", "wood", "strategy.">>,
      <<"Share?", PARA, "strategy.">>,
      <<"-", "amazing", "fire", "2026">> }

\* the text of n times the word w
Rep(w, n) == [i \in 1..n |-> w]

IsWord(tok) == tok # PARA

\* content.split()
Words(text) == SelectSeq(text, IsWord)

RECURSIVE SumOver(_, _)
SumOver(s, field) ==
    IF s = <<>> THEN 0 ELSE Lexicon[Head(s)][field] + SumOver(Tail(s), field)

\* len(content.split('.')): one more than the number of '.' characters
SentenceCount(text) == SumOver(Words(text), "dots") + 1

\* keyword in content.lower()
Contains(text, keyword) ==
    \E i \in 1..Len(text) : IsWord(text[i]) /\ keyword \in Lexicon[text[i]].subs

ContainsAny(text, keywords) == \E k \in keywords : Contains(text, k)

HasMark(text, mark) ==
    \E i \in 1..Len(text) : IsWord(text[i]) /\ mark \in Lexicon[text[i]].marks

\* content.split('\n\n'): the word lists between paragraph breaks
RECURSIVE Paragraphs(_)
Paragraphs(text) ==
    IF \A i \in 1..Len(text) : text[i] # PARA
    THEN <<text>>
    ELSE LET k == CHOOSE i \in 1..Len(text) :
                      text[i] = PARA /\ \A j \in 1..(i - 1) : text[j] # PARA
         IN  <<SubSeq(text, 1, k - 1)>> \o Paragraphs(SubSeq(text, k + 1, Len(text)))

\* any(line.strip().startswith(('-', '*', '1.')) for line in content.split('\n'))
HasLists(text) ==
    \E i \in 1..Len(text) :
        /\ IsWord(text[i])
        /\ "bullet" \in Lexicon[text[i]].marks
        /\ (i = 1 \/ text[i - 1] = PARA)

-----------------------------------------------------------------------------
(* Platform scorers *)

\* 1 - min(abs(word_count - ideal_length) / ideal_length, 1)
LengthScore(word_count, ideal_length) ==
    RSub(RInt(1), RMin(R(Abs(word_count - ideal_length), ideal_length), RInt(1)))

Bonus(cond, x) == IF cond THEN x ELSE RInt(0)

\* _calculate_twitter_score with the length weighted 0.4
_calculate_twitter_score_w40(content) ==
    LET word_count         == Len(Words(content))
        length_score       == LengthScore(word_count, 250)
        has_question       == HasMark(content, "?")
        has_call_to_action == ContainsAny(content, {"follow", "retweet", "like", "share"})
        base_score         == RSum(<< RMul(length_score, R(4, 10)),
                                      Bonus(has_question, R(2, 10)),
                                      Bonus(has_call_to_action, R(3, 10)) >>)
    IN  RMin(base_score, RInt(1))

_calculate_twitter_score(content) ==
    LET word_count         == Len(Words(content))
        length_score       == LengthScore(word_count, 250)
        has_question       == HasMark(content, "?")
        has_call_to_action == ContainsAny(content, {"follow", "retweet", "like", "share"})
        base_score         == RSum(<< RMul(length_score, R(1, 2)),
                                      Bonus(has_question, R(2, 10)),
                                      Bonus(has_call_to_action, R(3, 10)) >>)
    IN  RMin(base_score, RInt(1))

\* IdealLength with the article length as the default
IdealLength_default_article(content_type) ==
    CASE content_type = "article" -> 1500
      [] content_type = "post"    -> 800
      [] content_type = "update"  -> 200
      [] OTHER                    -> 1500

IdealLength(content_type) ==
    CASE content_type = "article" -> 1500
      [] content_type = "post"    -> 800
      [] content_type = "update"  -> 200
      [] OTHER                    -> 800

_calculate_linkedin_score(content, content_type) ==
    LET word_count     == Len(Words(content))
        length_score   == LengthScore(word_count, IdealLength(content_type))
        has_paragraphs == Len(Paragraphs(content)) > 1
        has_professional_terms ==
            ContainsAny(content, {"experience", "professional", "industry",
                                  "business", "strategy"})
        base_score     == RSum(<< RMul(length_score, R(4, 10)),
                                  Bonus(has_paragraphs, R(3, 10)),
                                  Bonus(has_professional_terms, R(3, 10)) >>)
    IN  RMin(base_score, RInt(1))

_calculate_instagram_score(content) ==
    LET word_count        == Len(Words(content))
        length_score      == LengthScore(word_count, 150)
        has_emoji         == HasMark(content, "emoji")
        has_story_element == Len(Paragraphs(content)) > 1
        base_score        == RSum(<< RMul(length_score, R(4, 10)),
                                     Bonus(has_emoji, R(3, 10)),
                                     Bonus(has_story_element, R(3, 10)) >>)
    IN  RMin(base_score, RInt(1))

\* the platform_scores dict of _generate_content_metrics
Platforms == {"twitter", "linkedin", "instagram"}

PlatformScores(content, content_type) ==
    [p \in Platforms |->
        CASE p = "twitter"   -> _calculate_twitter_score(content)
          [] p = "linkedin"  -> _calculate_linkedin_score(content, content_type)
          [] p = "instagram" -> _calculate_instagram_score(content)]

\* EngagementScore with the sum in place of the mean
EngagementScore_sum(content, content_type) ==
    LET platform_scores == PlatformScores(content, content_type)
    IN  RSum(<< platform_scores["twitter"], platform_scores["linkedin"],
                platform_scores["instagram"] >>)

\* np.mean([score for score in platform_scores.values()])
EngagementScore(content, content_type) ==
    LET platform_scores == PlatformScores(content, content_type)
    IN  RDivInt(RSum(<< platform_scores["twitter"], platform_scores["linkedin"],
                        platform_scores["instagram"] >>), 3)

-----------------------------------------------------------------------------
(* The shared TfidfVectorizer *)

\* the vectorizer before its first fit, and after a fit on a document
UNFITTED == [fitted |-> FALSE, terms |-> {}]

Fitted(terms) == [fitted |-> TRUE, terms |-> terms]

\* the terms the analyzer extracts from a document, with repetitions
RECURSIVE Terms(_)
Terms(text) ==
    IF text = <<>> THEN <<>>
    ELSE (IF IsWord(Head(text)) THEN Lexicon[Head(text)].terms ELSE <<>>)
         \o Terms(Tail(text))

TermSet(text) == {Terms(text)[i] : i \in 1..Len(Terms(text))}

Count(text, term) ==
    LET ts == Terms(text)
    IN  Cardinality({i \in 1..Len(ts) : ts[i] = term})

\* FitRaises for a vectorizer that accepts an empty vocabulary
FitRaises_never(content) == FALSE

\* fit_transform([content]) raises ValueError("empty vocabulary") when the
\* document yields no term; otherwise the vocabulary becomes the document's terms
FitRaises(content) == Terms(content) = <<>>

\* transform([text]) on a fitted vectorizer: the term counts over the
\* vocabulary (every idf is 1 after a fit on one document)
Transform(vocab, text) == [t \in vocab |-> Count(text, t)]

RECURSIVE Dot(_, _, _)
Dot(u, v, terms) ==
    IF terms = {} THEN 0
    ELSE LET t == CHOOSE x \in terms : TRUE
         IN  u[t] * v[t] + Dot(u, v, terms \ {t})

\* (new_vector * cached_vector.T).A[0][0] of two l2-normalised rows; a row
\* without any vocabulary term stays the zero row
Similarity(vocab, content, cached_content) ==
    LET u  == Transform(vocab, content)
        v  == Transform(vocab, cached_content)
        uv == Dot(u, v, vocab)
        uu == Dot(u, u, vocab)
        vv == Dot(v, v, vocab)
    IN  IF uu = 0 \/ vv = 0 THEN RInt(0)
        ELSE R(Isqrt((uv * uv * SimScale * SimScale) \div (uu * vv), SimScale), SimScale)

RECURSIVE RMaxOf(_)
RMaxOf(S) ==
    LET x == CHOOSE y \in S : TRUE
    IN  IF S = {x} THEN x ELSE RMax(x, RMaxOf(S \ {x}))

_check_originality(content, vocab, cache) ==
    IF DOMAIN cache = {} THEN RInt(1)
    ELSE IF ~vocab.fitted THEN R(1, 2)   \* transform raises NotFittedError
    ELSE LET similarities   == {Similarity(vocab.terms, content, cache[k]) : k \in DOMAIN cache}
             max_similarity == RMaxOf(similarities)
         IN  RMax(RMin(RSub(RInt(1), max_similarity), RInt(1)), RInt(0))

\* _check_originality_skipping with originality 0.0 on an empty cache
_check_originality_skipping_empty_zero(content, vocab, cache, failing) ==
    IF DOMAIN cache = {} THEN RInt(0)
    ELSE IF ~vocab.fitted THEN R(1, 2)
    ELSE LET similarities == {Similarity(vocab.terms, content, cache[k]) :
                                  k \in DOMAIN cache \ failing}
             max_similarity == IF similarities = {} THEN RInt(0) ELSE RMaxOf(similarities)
         IN  RMax(RMin(RSub(RInt(1), max_similarity), RInt(1)), RInt(0))

\* _check_originality when the comparison with the cached entries `failing`
\* raises inside the loop (lines 409-415): such an entry is logged and
\* skipped, and max_similarity is 0 when no comparison is left (line 417)
_check_originality_skipping(content, vocab, cache, failing) ==
    IF DOMAIN cache = {} THEN RInt(1)
    ELSE IF ~vocab.fitted THEN R(1, 2)   \* transform raises NotFittedError
    ELSE LET similarities == {Similarity(vocab.terms, content, cache[k]) :
                                  k \in DOMAIN cache \ failing}
             max_similarity == IF similarities = {} THEN RInt(0) ELSE RMaxOf(similarities)
         IN  RMax(RMin(RSub(RInt(1), max_similarity), RInt(1)), RInt(0))

-----------------------------------------------------------------------------
(* Virality and quality sub-scores *)

Present(text, keywords) == Cardinality({k \in keywords : Contains(text, k)})

_detect_emotional_content(content) ==
    LET high   == Present(content, {"amazing", "incredible", "awesome", "fantastic"})
        medium == Present(content, {"good", "great", "nice", "cool"})
        low    == Present(content, {"okay", "fine", "normal", "average"})
        total_score  == RSum(<< RInt(high), R(6 * medium, 10), R(3 * low, 10) >>)
        word_count   == Len(Words(content))
    IN  \* max_possible = word_count / 20
        IF word_count > 0
        THEN RMin(RMul(total_score, R(20, word_count)), RInt(1))
        ELSE RInt(0)

_calculate_shareability(content) ==
    LET score == RSum(<< Bonus(HasMark(content, "?"), R(3, 10)),
                         Bonus(ContainsAny(content, {"share", "retweet"}), R(3, 10)),
                         Bonus(HasLists(content), R(2, 10)) >>)
    IN  RMin(score, RInt(1))

_calculate_uniqueness(content, vocab, cache) == _check_originality(content, vocab, cache)

\* _check_timeliness with 0.0 for a text without the year
_check_timeliness_absent_zero(content) == IF HasMark(content, "year") THEN RInt(1) ELSE RInt(0)

\* 1.0 if str(datetime.now().year) in content else 0.5
_check_timeliness(content) == IF HasMark(content, "year") THEN RInt(1) ELSE R(1, 2)

_calculate_virality_potential(content, vocab, cache) ==
    LET virality_score ==
            RSum(<< RMul(_detect_emotional_content(content), R(3, 10)),
                    RMul(_calculate_shareability(content), R(3, 10)),
                    RMul(_calculate_uniqueness(content, vocab, cache), R(2, 10)),
                    RMul(_check_timeliness(content), R(2, 10)) >>)
    IN  RMin(virality_score, RInt(1))

_calculate_readability(content) ==
    LET words     == Words(content)
        sentences == SentenceCount(content)
    IN  IF words = <<>> THEN RInt(0)
        ELSE LET avg_words_per_sentence == R(Len(words), sentences)
                 avg_word_length        == R(SumOver(words, "chars"), Len(words))
                 readability ==
                     RSub(RInt(1),
                          RDivInt(RAdd(RDivInt(RSub(avg_words_per_sentence, RInt(15)), 30),
                                       RDivInt(RSub(avg_word_length, RInt(5)), 10)), 2))
             IN  RMax(RMin(readability, RInt(1)), RInt(0))

_analyze_structure(content) ==
    LET paragraphs      == Paragraphs(content)
        n               == Len(paragraphs)
        has_intro       == Len(Words(paragraphs[1])) >= 20
        has_conclusion  == Len(Words(paragraphs[n])) >= 20
        avg_para_length == R(Len(Words(content)), n)
        structure_score ==
            RSum(<< Bonus(has_intro, R(3, 10)),
                    Bonus(has_conclusion, R(3, 10)),
                    RMul(R(4, 10),
                         RSub(RInt(1), RDivInt(RAbs(RSub(avg_para_length, RInt(75))), 75))) >>)
    IN  RMax(RMin(structure_score, RInt(1)), RInt(0))

_predict_engagement(content) ==
    LET features ==
            << HasMark(content, "?"),
               HasMark(content, "digit"),
               HasMark(content, "quote"),
               HasLists(content),
               ContainsAny(content, {"follow", "share", "comment", "like"}) >>
        engagement_score == R(Cardinality({i \in 1..5 : features[i]}), 5)
    IN  RMin(engagement_score, RInt(1))

_calculate_quality_score(content, vocab, cache) ==
    LET quality_score ==
            RSum(<< RMul(_calculate_readability(content), R(3, 10)),
                    RMul(_analyze_structure(content), R(2, 10)),
                    RMul(_predict_engagement(content), R(3, 10)),
                    RMul(_check_originality(content, vocab, cache), R(2, 10)) >>)
    IN  RMin(quality_score, RInt(1))

-----------------------------------------------------------------------------
(* Audience fit, posting times, hashtags, category *)

\* platform_weights.get(platform, 0.33)
PlatformWeight(platform) ==
    CASE platform = "twitter"   -> R(35, 100)
      [] platform = "linkedin"  -> R(35, 100)
      [] platform = "instagram" -> R(30, 100)
      [] OTHER                  -> R(33, 100)

\* the scores list: one score per recognized entry of platforms, in order
RECURSIVE FitScores(_, _)
FitScores(content, platforms) ==
    IF platforms = <<>> THEN <<>>
    ELSE LET platform == Head(platforms)
             rest     == FitScores(content, Tail(platforms))
         IN  CASE platform = "twitter"   -> <<_calculate_twitter_score(content)>> \o rest
               [] platform = "linkedin"  -> <<_calculate_linkedin_score(content, "post")>> \o rest
               [] platform = "instagram" -> <<_calculate_instagram_score(content)>> \o rest
               [] OTHER                  -> rest

\* zip(scores, platforms) pairs the i-th score with the i-th requested
\* platform, whichever platform the score was computed for
_calculate_audience_fit(content, platforms) ==
    LET scores == FitScores(content, platforms)
    IN  IF scores = <<>> THEN R(1, 2)
        ELSE LET weighted_scores ==
                     [i \in 1..Len(scores) |-> RMul(scores[i], PlatformWeight(platforms[i]))]
             IN  RDivInt(RSum(weighted_scores), Len(weighted_scores))

BaseTimes(platform, is_weekend) ==
    CASE platform = "twitter"   -> IF is_weekend THEN "9:00-11:00"  ELSE "12:00-15:00"
      [] platform = "linkedin"  -> IF is_weekend THEN "10:00-11:00" ELSE "8:00-10:00"
      [] platform = "instagram" -> IF is_weekend THEN "9:00-11:00"  ELSE "11:00-13:00"

Range(s) == {s[i] : i \in 1..Len(s)}

\* _get_optimal_posting_times with a default entry instead of the filter
_get_optimal_posting_times_default(platforms, is_weekend) ==
    [platform \in Range(platforms) |->
        IF platform \in Platforms THEN BaseTimes(platform, is_weekend) ELSE "unknown"]

_get_optimal_posting_times(platforms, is_weekend) ==
    [platform \in Range(platforms) \cap Platforms |-> BaseTimes(platform, is_weekend)]

\* sorted(scores, key=lambda x: x[1], reverse=True): by weight, the sorted
\* feature order kept among equal weights
RECURSIVE SortedBy(_, _)
SortedBy(weight, terms) ==
    IF terms = {} THEN <<>>
    ELSE LET best == CHOOSE t \in terms : \A u \in terms :
                        \/ weight[t] > weight[u]
                        \/ weight[t] = weight[u] /\ TermRank(t) <= TermRank(u)
         IN  <<best>> \o SortedBy(weight, terms \ {best})

SortedTerms(content, terms) == SortedBy([t \in terms |-> Count(content, t)], terms)

Take(s, n) == SubSeq(s, 1, IF Len(s) < n THEN Len(s) ELSE n)

TypeHashtags(content_type) ==
    CASE content_type = "article"     -> << <<"#", "article">>, <<"#", "blog">>, <<"#", "reading">> >>
      [] content_type = "social_post" -> << <<"#", "social">>, <<"#", "trending">>, <<"#", "viral">> >>
      [] content_type = "news"        -> << <<"#", "news">>, <<"#", "update">>, <<"#", "latest">> >>
      [] OTHER                        -> <<>>

\* _generate_hashtags without the cut to the top five terms
_generate_hashtags_all_terms(content, content_type) ==
    LET sorted_scores == SortedTerms(content, TermSet(content))
        hashtags      == [i \in 1..Len(sorted_scores) |-> <<"#", sorted_scores[i]>>]
    IN  Take(hashtags \o Take(TypeHashtags(content_type), 2), 7)

\* a tag "#term" is the pair <<"#", term>>; the caller has checked that
\* fit_transform does not raise
_generate_hashtags(content, content_type) ==
    LET sorted_scores == SortedTerms(content, TermSet(content))
        top           == Take(sorted_scores, 5)
        hashtags      == [i \in 1..Len(top) |-> <<"#", top[i]>>]
    IN  Take(hashtags \o Take(TypeHashtags(content_type), 2), 7)

Categories == <<"technology", "business", "lifestyle", "education">>

Keywords(category) ==
    CASE category = "technology" -> {"tech", "software", "digital", "ai", "innovation"}
      [] category = "business"   -> {"business", "strategy", "marketing", "finance"}
      [] category = "lifestyle"  -> {"lifestyle", "health", "wellness", "travel"}
      [] category = "education"  -> {"education", "learning", "study", "academic"}

\* _determine_category with the last of the highest counts
_determine_category_last(content) ==
    LET score(i) == Present(content, Keywords(Categories[i]))
        best == CHOOSE i \in 1..Len(Categories) :
                    /\ \A j \in 1..Len(Categories) : score(j) <= score(i)
                    /\ \A j \in (i + 1)..Len(Categories) : score(j) < score(i)
    IN  IF score(best) > 0 THEN Categories[best] ELSE "general"

_determine_category(content) ==
    LET score(i) == Present(content, Keywords(Categories[i]))
        best == CHOOSE i \in 1..Len(Categories) :
                    /\ \A j \in 1..Len(Categories) : score(j) <= score(i)
                    /\ \A j \in 1..(i - 1) : score(j) < score(i)
    IN  IF score(best) > 0 THEN Categories[best] ELSE "general"

-----------------------------------------------------------------------------
(* _generate_content_metrics and analyze_content *)

\* The outcome of _generate_content_metrics: the ContentMetrics record, or
\* the exception of fit_transform in _generate_hashtags (which leaves the
\* vocabulary as it was: `vocab` is what it was fitted on so far).  The hashtags are generated, and the vectorizer
\* refitted on the content, before virality, audience fit and quality are
\* evaluated in the ContentMetrics constructor call.
\* _generate_content_metrics with the originality lookups ahead of the
\* hashtag generation, on the vectorizer as the earlier calls left it
_generate_content_metrics_stale(content, platforms, content_type, vocab, cache, is_weekend) ==
    IF FitRaises(content)
    THEN [raised |-> TRUE]
    ELSE [raised |-> FALSE,
          metrics |->
            [engagement_score        |-> EngagementScore(content, content_type),
             virality_potential      |-> _calculate_virality_potential(content, vocab, cache),
             audience_fit            |-> _calculate_audience_fit(content, platforms),
             optimal_posting_times   |-> _get_optimal_posting_times(platforms, is_weekend),
             hashtag_recommendations |-> _generate_hashtags(content, content_type),
             content_quality_score   |-> _calculate_quality_score(content, vocab, cache)]]

_generate_content_metrics(content, platforms, content_type, vocab, cache, is_weekend) ==
    IF FitRaises(content)
    THEN [raised |-> TRUE]
    ELSE LET fitted == Fitted(TermSet(content))
         IN  [raised |-> FALSE,
              metrics |->
                [engagement_score        |-> EngagementScore(content, content_type),
                 virality_potential      |-> _calculate_virality_potential(content, fitted, cache),
                 audience_fit            |-> _calculate_audience_fit(content, platforms),
                 optimal_posting_times   |-> _get_optimal_posting_times(platforms, is_weekend),
                 hashtag_recommendations |-> _generate_hashtags(content, content_type),
                 content_quality_score   |-> _calculate_quality_score(content, fitted, cache)]]

\* Uuid4 with one identifier for every item
Uuid4_reused(cache) == 1

\* str(uuid.uuid4()): an identifier no cached entry has
Uuid4(cache) == Cardinality(DOMAIN cache) + 1

\* self.content_cache[content_item.id] = content_item.content
Put(cache, id, content) ==
    [k \in DOMAIN cache \cup {id} |-> IF k = id THEN content ELSE cache[k]]

\* analyze_content with the cache insertion ahead of the scoring
analyze_content_insert_first(content, platforms, content_type, vocab, cache, scored, is_weekend) ==
    LET m == _generate_content_metrics(content, platforms, content_type, vocab,
                                       Put(scored, Uuid4(cache), content), is_weekend)
    IN  IF m.raised
        THEN [vocabulary |-> vocab,
              cache |-> cache,
              ret |-> [kind |-> "raised", stage |-> "metrics", content |-> content,
                       target_platforms |-> platforms, content_type |-> content_type]]
        ELSE [vocabulary |-> Fitted(TermSet(content)),
              cache |-> Put(cache, Uuid4(cache), content),
              ret |-> [kind |-> "returned", id |-> Uuid4(cache), content |-> content,
                       target_platforms |-> platforms, content_type |-> content_type,
                       metrics |-> m.metrics,
                       category |-> _determine_category(content),
                       seen |-> DOMAIN Put(scored, Uuid4(cache), content),
                       before |-> cache]]

\* analyze_content with the text cached ahead of the metrics, and left in
\* the cache when they raise
analyze_content_insert_kept(content, platforms, content_type, vocab, cache, scored, is_weekend) ==
    LET m == _generate_content_metrics(content, platforms, content_type, vocab,
                                       scored, is_weekend)
    IN  IF m.raised
        THEN [vocabulary |-> vocab,
              cache |-> Put(cache, Uuid4(cache), content),
              ret |-> [kind |-> "raised", stage |-> "metrics", content |-> content,
                       target_platforms |-> platforms, content_type |-> content_type]]
        ELSE [vocabulary |-> Fitted(TermSet(content)),
              cache |-> Put(cache, Uuid4(cache), content),
              ret |-> [kind |-> "returned", id |-> Uuid4(cache), content |-> content,
                       target_platforms |-> platforms, content_type |-> content_type,
                       metrics |-> m.metrics,
                       category |-> _determine_category(content),
                       seen |-> DOMAIN scored,
                       before |-> cache]]

\* analyze_content from the return of crawler.arun to its own return (lines
\* 76-99), on the cache `scored` for the scores: the metrics, the content
\* item, the cache insertion.  `ret` is what the caller gets, together with
\* two history fields for the properties: `seen`, the identifiers the
\* originality lookups read, and `before`, the cache ahead of the insertion.
analyze_content(content, platforms, content_type, vocab, cache, scored, is_weekend) ==
    LET m == _generate_content_metrics(content, platforms, content_type, vocab,
                                       scored, is_weekend)
    IN  IF m.raised
        THEN [vocabulary |-> vocab,
              cache |-> cache,
              ret |-> [kind |-> "raised", stage |-> "metrics", content |-> content,
                       target_platforms |-> platforms, content_type |-> content_type]]
        ELSE [vocabulary |-> Fitted(TermSet(content)),
              cache |-> Put(cache, Uuid4(cache), content),
              ret |-> [kind |-> "returned", id |-> Uuid4(cache), content |-> content,
                       target_platforms |-> platforms, content_type |-> content_type,
                       metrics |-> m.metrics,
                       category |-> _determine_category(content),
                       seen |-> DOMAIN scored,
                       before |-> cache]]

-----------------------------------------------------------------------------
(* Inputs *)

Tasks == {"t1", "t2"}

PlatformIds == Platforms \cup {"tiktok"}

PlatformLists == UNION {[1..n -> PlatformIds] : n \in 0..MaxPlatforms}

ContentTypes == {"article", "post"}

\* the inputs of the concurrent specification
FlowTexts == { <<"a">>, <<"wood">>, <<"strategy.", "wood">> }

FlowPlatformLists == { <<"twitter">>, <<"tiktok", "linkedin">> }

FlowContentTypes == {"article"}

\* the URLs of main's list
Urls == 1..NumUrls

\* max_attempts = 5 in extract_project
max_attempts == 5

\* asyncio.Semaphore(3) in main
SemaphoreValue == 3

-----------------------------------------------------------------------------
(* Actions *)

NoOutcome == [kind |-> "none"]

InFlight == Cardinality({t \in Tasks : pc[t] = "crawling"})

Init ==
    /\ content_cache = <<>>
    /\ vocabulary = UNFITTED
    /\ pc = [t \in Tasks |-> "idle"]
    /\ args = [t \in Tasks |-> <<>>]
    /\ atCall = [t \in Tasks |-> <<>>]
    /\ ret = [t \in Tasks |-> NoOutcome]
    /\ crawl_pc = "idle"
    /\ attempt = 0
    /\ crawl_log = <<>>
    /\ crawl_ret = NoOutcome
    /\ task_pc = [u \in Urls |-> "created"]
    /\ semaphore = SemaphoreValue
    /\ report = [u \in Urls |-> NoOutcome]

\* analyze_content is called and suspends in `await self.crawler.arun(...)`
Call(t, platforms, content_type) ==
    /\ pc[t] = "idle"
    /\ Cardinality(DOMAIN content_cache) + InFlight < MaxCache
    /\ pc' = [pc EXCEPT ![t] = "crawling"]
    /\ args' = [args EXCEPT ![t] = <<platforms, content_type>>]
    /\ atCall' = [atCall EXCEPT ![t] = content_cache]
    /\ ret' = [ret EXCEPT ![t] = NoOutcome]
    /\ UNCHANGED <<content_cache, vocabulary>>
    /\ UNCHANGED <<crawlVars, mainVars>>

\* crawler.arun raises: the exception is logged and re-raised (lines 72-74)
CrawlRaise(t) ==
    /\ pc[t] = "crawling"
    /\ pc' = [pc EXCEPT ![t] = "idle"]
    /\ args' = [args EXCEPT ![t] = <<>>]
    /\ ret' = [ret EXCEPT ![t] = [kind |-> "raised", stage |-> "crawl"]]
    /\ UNCHANGED <<content_cache, vocabulary, atCall>>
    /\ UNCHANGED <<crawlVars, mainVars>>

\* CacheRead for a lookup in the cache as it was before the crawl
CacheRead_stale(t) == atCall[t]

\* the cache the originality lookups of task t read: self.content_cache at
\* the time of the lookup
CacheRead(t) == content_cache

\* crawler.arun returns `content`; the coroutine runs to its end without
\* suspending again: _generate_content_metrics and _generate_hashtags are
\* awaited, but nothing in them awaits
Resume(t, content, is_weekend) ==
    /\ pc[t] = "crawling"
    /\ LET out == analyze_content(content, args[t][1], args[t][2], vocabulary,
                                  content_cache, CacheRead(t), is_weekend)
       IN  /\ content_cache' = out.cache
           /\ vocabulary' = out.vocabulary
           /\ ret' = [ret EXCEPT ![t] = out.ret]
    /\ pc' = [pc EXCEPT ![t] = "idle"]
    /\ args' = [args EXCEPT ![t] = <<>>]
    /\ UNCHANGED atCall
    /\ UNCHANGED <<crawlVars, mainVars>>

\* concurrent analyze_content calls on one instance, in one event loop
Next ==
    \E t \in Tasks :
        \/ \E p \in FlowPlatformLists, c \in FlowContentTypes : Call(t, p, c)
        \/ CrawlRaise(t)
        \/ \E x \in FlowTexts, w \in BOOLEAN : Resume(t, x, w)

Spec == Init /\ [][Next]_vars

\* one analyze_content call at a time, over all the inputs
NextSeq ==
    \/ \E p \in PlatformLists, c \in ContentTypes : Call("t1", p, c)
    \/ CrawlRaise("t1")
    \/ \E x \in Texts, w \in BOOLEAN : Resume("t1", x, w)

SpecSeq == Init /\ [][NextSeq]_vars

-----------------------------------------------------------------------------
(* Direct calls of the scoring methods on an instance *)

AllContentTypes == {"article", "post", "update", "social_post", "news"}

\* 15 words in one sentence, 5 characters a word
Optimum15x5 == Rep("wood", 10) \o Rep("amazing", 5)

\* 16 words in one sentence, 5 characters a word
Sixteen5 == Rep("wood", 8) \o Rep("Share?", 8)

\* a text with every term of the lexicon
AllTerms == <<"2026", "amazing", "finance", "Share?", "strategy.", "tech", "wood", "wood">>

UnitTexts ==
    Texts \cup
    { Optimum15x5, Sixteen5, AllTerms,
      <<"strategy.", "strategy.">>,
      <<"tech", "strategy.">>,
      <<"strategy.", "finance", "tech">> }

\* texts around the ideal lengths of the platform scorers
LongTexts ==
    { Rep("wood", 200), Rep("wood", 250), Rep("wood", 249) \o <<"Share?">>,
      Rep("wood", 600), Rep("wood", 800), Rep("wood", 1500),
      Rep("wood", 1499) \o <<"strategy.">>,
      Rep("wood", 750) \o <<PARA>> \o Rep("wood", 750) }

\* the texts hashtags are generated for
HashTexts == { <<>>, <<"a">>, <<"wood">>, <<"wood", "wood", "strategy.">>, AllTerms }

\* the texts analyze_content is given between the direct calls
UnitFlowTexts == { <<"a">>, <<"wood">>, <<"strategy.", "wood">> }

\* await self._generate_hashtags(content, content_type)
GenerateHashtags(t, content, content_type) ==
    /\ pc[t] = "idle"
    /\ IF FitRaises(content)
       THEN /\ vocabulary' = vocabulary
            /\ ret' = [ret EXCEPT ![t] =
                          [kind |-> "raised", stage |-> "hashtags", content |-> content]]
       ELSE /\ vocabulary' = Fitted(TermSet(content))
            /\ ret' = [ret EXCEPT ![t] =
                          [kind |-> "hashtags", content |-> content,
                           content_type |-> content_type,
                           value |-> _generate_hashtags(content, content_type),
                           vocabulary_before |-> vocabulary,
                           cache_before |-> content_cache]]
    /\ UNCHANGED <<content_cache, pc, args, atCall>>
    /\ UNCHANGED <<crawlVars, mainVars>>

\* the factors of _calculate_virality_potential and _calculate_quality_score,
\* each computed by its method on the instance as it is; `failing` are the
\* cached entries whose comparison raises in _check_originality
Factors(t, content, failing) ==
    /\ pc[t] = "idle"
    /\ ret' = [ret EXCEPT ![t] =
                  [kind |-> "factors", content |-> content, failing |-> failing,
                   emotional    |-> _detect_emotional_content(content),
                   shareability |-> _calculate_shareability(content),
                   uniqueness   |-> _check_originality_skipping(content, vocabulary,
                                                                content_cache, failing),
                   timeliness   |-> _check_timeliness(content),
                   readability  |-> _calculate_readability(content),
                   structure    |-> _analyze_structure(content),
                   engagement   |-> _predict_engagement(content),
                   originality  |-> _check_originality_skipping(content, vocabulary,
                                                                content_cache, failing)]]
    /\ UNCHANGED <<content_cache, vocabulary, pc, args, atCall>>
    /\ UNCHANGED <<crawlVars, mainVars>>

\* self._calculate_twitter_score(content) and
\* self._calculate_linkedin_score(content, content_type)
PlatformScore(t, content, content_type) ==
    /\ pc[t] = "idle"
    /\ ret' = [ret EXCEPT ![t] =
                  [kind |-> "platform", content |-> content, content_type |-> content_type,
                   twitter  |-> _calculate_twitter_score(content),
                   linkedin |-> _calculate_linkedin_score(content, content_type)]]
    /\ UNCHANGED <<content_cache, vocabulary, pc, args, atCall>>
    /\ UNCHANGED <<crawlVars, mainVars>>

\* self._calculate_readability(content)
Readability(t, content) ==
    /\ pc[t] = "idle"
    /\ ret' = [ret EXCEPT ![t] =
                  [kind |-> "readability", content |-> content,
                   value |-> _calculate_readability(content)]]
    /\ UNCHANGED <<content_cache, vocabulary, pc, args, atCall>>
    /\ UNCHANGED <<crawlVars, mainVars>>

\* self._determine_category(content)
DetermineCategory(t, content) ==
    /\ pc[t] = "idle"
    /\ ret' = [ret EXCEPT ![t] =
                  [kind |-> "category", content |-> content,
                   value |-> _determine_category(content)]]
    /\ UNCHANGED <<content_cache, vocabulary, pc, args, atCall>>
    /\ UNCHANGED <<crawlVars, mainVars>>

\* one caller that analyzes pages and, in between, generates hashtags and
\* evaluates the factors
NextUnit ==
    \/ \E p \in {<<"twitter">>}, c \in {"article"} : Call("t1", p, c)
    \/ CrawlRaise("t1")
    \/ \E x \in UnitFlowTexts : Resume("t1", x, FALSE)
    \/ \E x \in HashTexts, c \in AllContentTypes : GenerateHashtags("t1", x, c)
    \/ \E x \in Texts, f \in SUBSET DOMAIN content_cache : Factors("t1", x, f)

SpecUnit == Init /\ [][NextUnit]_vars

\* one caller of the methods that read nothing but their arguments
NextScore ==
    \/ \E x \in UnitTexts \cup LongTexts, c \in AllContentTypes : PlatformScore("t1", x, c)
    \/ \E x \in UnitTexts : Readability("t1", x)
    \/ \E x \in UnitTexts : DetermineCategory("t1", x)

SpecScore == Init /\ [][NextScore]_vars

-----------------------------------------------------------------------------
(* DIYCrawler.extract_project and process_result (src/crawler.py) *)

\* result.extracted_content as process_result tells it apart: its type
\* ("none": attribute missing, None or empty; "str": JSON text; "dict";
\* "list": a non-empty list), for a list the type of its first element, and
\* whether the data conform to the DIYProject schema
Content(type, first, conforms) == [type |-> type, first |-> first, conforms |-> conforms]

Contents ==
    { Content("none", "none", FALSE),
      Content("str", "none", TRUE),
      Content("dict", "none", TRUE),
      Content("dict", "none", FALSE),
      Content("list", "dict", TRUE),
      Content("list", "dict", FALSE),
      Content("list", "str", TRUE) }

\* DIYProject.model_validate_json(data): pydantic parses JSON text (str,
\* bytes or bytearray) and validates it; any other input, a dict included,
\* is rejected with a validation error
model_validate_json(data) ==
    IF data.type = "str" /\ data.conforms THEN "project" ELSE "raise"

\* process_result: "None" or "project"
process_result(content) ==
    IF content.type = "none"
    THEN "None"
    ELSE LET extracted_content ==
                 IF content.type = "list"
                 THEN Content(content.first, "none", content.conforms)
                 ELSE content
         IN  IF extracted_content.type # "dict"
             THEN "None"
             ELSE IF model_validate_json(extracted_content) = "raise"
                  THEN "None"
                  ELSE "project"

\* what `await crawler.arun(...)` can do: raise, or return a result that
\* reports a rate limit, a failure (falsy, or success false), or a success
\* with some extracted content
ArunOutcomes ==
    { [kind |-> k, content |-> Content("none", "none", FALSE)] :
          k \in {"raise", "rate_limited", "failure"} }
    \cup { [kind |-> "success", content |-> c] : c \in Contents }

Min(a, b) == IF a < b THEN a ELSE b

\* RateLimitWait counted from the attempt's index, without the + 1
RateLimitWait_from_zero(n) == Min(n * 5, 30)

\* wait_time = min((attempt + 1) * 5, 30)
RateLimitWait(n) == Min((n + 1) * 5, 30)

\* BackoffTime doubling from 2 seconds
BackoffTime_from_two(n) == Min(2 ^ (n + 1), 30)

\* backoff_time = min(2 ** attempt, 30)
BackoffTime(n) == Min(2 ^ n, 30)

\* LoopContinues for range(max_attempts + 1)
LoopContinues_one_more(n) == n + 1 < max_attempts + 1

\* for attempt in range(max_attempts): there is an iteration after attempt n
LoopContinues(n) == n + 1 < max_attempts

ArunEntry(n, outcome) ==
    [event |-> "arun", attempt |-> n, outcome |-> outcome.kind,
     content |-> outcome.content, seconds |-> 0]

SleepEntry(n, seconds) ==
    [event |-> "sleep", attempt |-> n, outcome |-> "none",
     content |-> Content("none", "none", FALSE), seconds |-> seconds]

\* extract_project is called and awaits the start of AsyncWebCrawler
ExtractCall ==
    /\ crawl_pc = "idle"
    /\ crawl_pc' = "entering"
    /\ UNCHANGED <<attempt, crawl_log, crawl_ret, coreVars, mainVars>>

\* `async with AsyncWebCrawler(...) as crawler`: the crawler starts and the
\* first attempt awaits arun, or the start raises, outside the try block
ExtractEnter(started) ==
    /\ crawl_pc = "entering"
    /\ IF started
       THEN /\ crawl_pc' = "arun"
            /\ attempt' = 0
            /\ crawl_ret' = crawl_ret
       ELSE /\ crawl_pc' = "done"
            /\ attempt' = attempt
            /\ crawl_ret' = [kind |-> "raised", value |-> "None"]
    /\ UNCHANGED <<crawl_log, coreVars, mainVars>>

\* `await crawler.arun(...)` ends, and the iteration runs up to its sleep,
\* its return or its raise
ArunReturns(outcome) ==
    /\ crawl_pc = "arun"
    /\ CASE outcome.kind = "rate_limited" ->
              /\ crawl_log' = crawl_log \o <<ArunEntry(attempt, outcome),
                                             SleepEntry(attempt, RateLimitWait(attempt))>>
              /\ crawl_pc' = "sleeping"
              /\ crawl_ret' = crawl_ret
         [] outcome.kind = "failure" ->
              /\ crawl_log' = Append(crawl_log, ArunEntry(attempt, outcome))
              /\ crawl_pc' = "done"
              /\ crawl_ret' = [kind |-> "returned", value |-> "None"]
         [] outcome.kind = "success" ->
              /\ crawl_log' = Append(crawl_log, ArunEntry(attempt, outcome))
              /\ crawl_pc' = "done"
              /\ crawl_ret' = [kind |-> "returned", value |-> process_result(outcome.content)]
         [] outcome.kind = "raise" ->
              IF attempt = max_attempts - 1
              THEN /\ crawl_log' = Append(crawl_log, ArunEntry(attempt, outcome))
                   /\ crawl_pc' = "done"
                   /\ crawl_ret' = [kind |-> "raised", value |-> "None"]
              ELSE /\ crawl_log' = crawl_log \o <<ArunEntry(attempt, outcome),
                                                  SleepEntry(attempt, BackoffTime(attempt))>>
                   /\ crawl_pc' = "sleeping"
                   /\ crawl_ret' = crawl_ret
    /\ UNCHANGED <<attempt, coreVars, mainVars>>

\* `await asyncio.sleep(...)` ends: the loop goes to its next iteration, or,
\* when there is none, extract_project returns None
SleepReturns ==
    /\ crawl_pc = "sleeping"
    /\ IF LoopContinues(attempt)
       THEN /\ attempt' = attempt + 1
            /\ crawl_pc' = "arun"
            /\ crawl_ret' = crawl_ret
       ELSE /\ attempt' = attempt
            /\ crawl_pc' = "done"
            /\ crawl_ret' = [kind |-> "returned", value |-> "None"]
    /\ UNCHANGED <<crawl_log, coreVars, mainVars>>

NextCrawl ==
    \/ ExtractCall
    \/ \E started \in BOOLEAN : ExtractEnter(started)
    \/ \E outcome \in ArunOutcomes : ArunReturns(outcome)
    \/ SleepReturns

\* one call of extract_project; the awaited start, crawl and sleep end
SpecCrawl == Init /\ [][NextCrawl]_vars /\ WF_vars(NextCrawl)

-----------------------------------------------------------------------------
(* main.process_url under asyncio.gather (src/main.py) *)

\* what an instance of DIYCrawler has: the attributes __init__ sets and the
\* methods of the class
DIYCrawlerAttributes ==
    { "supabase", "api_key", "browser_config", "crawler_config",
      "on_page_context_created", "create_extraction_config",
      "process_result", "extract_project" }

\* what `await crawler.extract_project(url)` can do by its signature,
\* Optional[DIYProject]: return a project, return None, or raise
ExtractResults == {"project", "None", "raise"}

\* process_url without its except clause: a raise prints nothing
process_url_propagating(result) ==
    CASE result = "raise" -> [kind |-> "none", got |-> result, stored |-> FALSE]
      [] result = "None" -> [kind |-> "failure", got |-> result, stored |-> FALSE]
      [] result = "project" -> [kind |-> "none", got |-> result, stored |-> FALSE]

\* the run of process_url's try block once extract_project has ended: what
\* is printed, and whether the project was stored
process_url(result) ==
    CASE result = "raise" -> [kind |-> "error", got |-> result, stored |-> FALSE]
      [] result = "None" -> [kind |-> "failure", got |-> result, stored |-> FALSE]
      [] result = "project" ->
            IF "store_project" \in DIYCrawlerAttributes
            THEN [kind |-> "success", got |-> result, stored |-> TRUE]
            ELSE [kind |-> "error", got |-> result, stored |-> FALSE]

\* SemaphoreAfter for a block that keeps its permit
SemaphoreAfter_kept(value) == value

\* the semaphore's value after `async with semaphore` is left
SemaphoreAfter(value) == value + 1

\* `async with semaphore`: the task takes a permit and calls extract_project
Acquire(u) ==
    /\ task_pc[u] = "created"
    /\ semaphore > 0
    /\ semaphore' = semaphore - 1
    /\ task_pc' = [task_pc EXCEPT ![u] = "extract"]
    /\ UNCHANGED <<report, coreVars, crawlVars>>

\* extract_project ends; the task prints its line, leaves the `async with`
\* and is done
ExtractEnds(u, result) ==
    /\ task_pc[u] = "extract"
    /\ report' = [report EXCEPT ![u] = process_url(result)]
    /\ semaphore' = SemaphoreAfter(semaphore)
    /\ task_pc' = [task_pc EXCEPT ![u] = "done"]
    /\ UNCHANGED <<coreVars, crawlVars>>

NextMain ==
    \/ \E u \in Urls : Acquire(u)
    \/ \E u \in Urls : \E result \in ExtractResults : ExtractEnds(u, result)

SpecMain == Init /\ [][NextMain]_vars

\* the event loop runs every task that can run, and every call of
\* extract_project ends
SpecMainFair ==
    /\ SpecMain
    /\ \A u \in Urls : WF_vars(Acquire(u))
    /\ \A u \in Urls : WF_vars(\E result \in ExtractResults : ExtractEnds(u, result))

-----------------------------------------------------------------------------
(* Properties *)

Returned(t) == ret[t].kind = "returned"

RaisedInMetrics(t) == ret[t].kind = "raised" /\ ret[t].stage = "metrics"

\* the recognized platforms among the requested ones
Recognized(platforms) == Range(platforms) \cap Platforms

\* the vocabulary the scores of a returned analysis were computed with
VocabOf(t) == Fitted(TermSet(ret[t].content))

\* C1: whenever _generate_content_metrics returns, engagement_score,
\* virality_potential, audience_fit and content_quality_score all lie in
\* [0,1], whatever the text, the content type, the platform list and the
\* cache contents.
C1_ScoresInUnit ==
    \A t \in Tasks :
        Returned(t) =>
            /\ InUnit(ret[t].metrics.engagement_score)
            /\ InUnit(ret[t].metrics.virality_potential)
            /\ InUnit(ret[t].metrics.audience_fit)
            /\ InUnit(ret[t].metrics.content_quality_score)

\* an analysis against a non-empty cache whose originality is neither 0 nor 1
C1_Witness ==
    \E t \in Tasks :
        /\ Returned(t)
        /\ DOMAIN ret[t].before # {}
        /\ LET o == _check_originality(ret[t].content, VocabOf(t), ret[t].before)
           IN  ~REq(o, RInt(0)) /\ ~REq(o, RInt(1))

\* C2: the scores of an analysis are computed on the cache as it was before
\* the analysis; the analyzed text is inserted, under its own identifier,
\* only afterwards, so the identifier of a document is never among the
\* entries its own originality was computed against.
C2_ScoredBeforeInsert ==
    \A t \in Tasks :
        Returned(t) =>
            /\ ret[t].id \notin ret[t].seen
            /\ ret[t].seen = DOMAIN ret[t].before
            /\ ret[t].id \in DOMAIN content_cache
            /\ content_cache[ret[t].id] = ret[t].content
            /\ REq(ret[t].metrics.content_quality_score,
                   _calculate_quality_score(ret[t].content, VocabOf(t), ret[t].before))
            /\ REq(ret[t].metrics.virality_potential,
                   _calculate_virality_potential(ret[t].content, VocabOf(t), ret[t].before))

\* an analysis against a non-empty cache that kept a positive originality
\* (compared against itself, a text has originality 0)
C2_Witness ==
    \E t \in Tasks :
        /\ Returned(t)
        /\ ret[t].seen # {}
        /\ ~REq(_check_originality(ret[t].content, VocabOf(t), ret[t].before), RInt(0))

\* C3: of two analyses on one instance, at least one computed its
\* originality against a cache holding the other's text: the lookups and
\* the insertion of one call are never interleaved with those of another.
C3_Serialized ==
    \A t1, t2 \in Tasks :
        (t1 # t2 /\ Returned(t1) /\ Returned(t2)) =>
            (ret[t1].id \in ret[t2].seen \/ ret[t2].id \in ret[t1].seen)

\* two analyses that ran concurrently: each was called before the other
\* had inserted its text
C3_Witness ==
    \E t1, t2 \in Tasks :
        /\ t1 # t2 /\ Returned(t1) /\ Returned(t2)
        /\ ret[t1].id \notin DOMAIN atCall[t2]
        /\ ret[t2].id \notin DOMAIN atCall[t1]

\* C4: content_cache starts empty; no step removes or overwrites an entry;
\* a call that returns adds exactly one entry, under a key that was not in
\* the cache, holding the analyzed text; no other step changes the cache.
C4_CacheGrows ==
    /\ DOMAIN content_cache = {}
    /\ [][ /\ \A k \in DOMAIN content_cache :
                k \in DOMAIN content_cache' /\ content_cache'[k] = content_cache[k]
           /\ \A t \in Tasks :
                (pc[t] = "crawling" /\ ret'[t].kind = "returned") =>
                    /\ ret'[t].id \notin DOMAIN content_cache
                    /\ DOMAIN content_cache' = DOMAIN content_cache \cup {ret'[t].id}
                    /\ content_cache'[ret'[t].id] = ret'[t].content
           /\ (\A t \in Tasks : ~(pc[t] = "crawling" /\ ret'[t].kind = "returned")) =>
                content_cache' = content_cache
         ]_vars

\* two calls have returned and the cache holds both texts
C4_Witness ==
    /\ Cardinality(DOMAIN content_cache) >= 2
    /\ \A t \in Tasks : Returned(t)

\* the mean of the scores of the requested recognized platforms
RequestedMean(content, content_type, platforms) ==
    LET scores == PlatformScores(content, content_type)
        RECURSIVE Total(_)
        Total(S) == IF S = {} THEN RInt(0)
                    ELSE LET p == CHOOSE q \in S : TRUE
                         IN  RAdd(scores[p], Total(S \ {p}))
    IN  RDivInt(Total(Recognized(platforms)), Cardinality(Recognized(platforms)))

\* C5: engagement_score is the mean of the scores of exactly the requested
\* platforms.
C5_EngagementOfRequested ==
    \A t \in Tasks :
        (Returned(t) /\ Recognized(ret[t].target_platforms) # {}) =>
            REq(ret[t].metrics.engagement_score,
                RequestedMean(ret[t].content, ret[t].content_type, ret[t].target_platforms))

\* C6: when no recognized platform is requested, the analysis returns with
\* engagement_score 0.0.
C6_NoPlatformZeroEngagement ==
    \A t \in Tasks :
        (Returned(t) /\ Recognized(ret[t].target_platforms) = {}) =>
            REq(ret[t].metrics.engagement_score, RInt(0))

\* each recognized entry's score times that same platform's weight
RECURSIVE OwnWeighted(_, _)
OwnWeighted(content, platforms) ==
    IF platforms = <<>> THEN <<>>
    ELSE LET one == FitScores(content, <<Head(platforms)>>)
         IN  (IF one = <<>> THEN <<>>
              ELSE <<RMul(one[1], PlatformWeight(Head(platforms)))>>)
             \o OwnWeighted(content, Tail(platforms))

\* C7: audience_fit is the sum over the requested recognized platforms of
\* score times that platform's own weight, divided by the number of scored
\* platforms, for every platform list.
C7_AudienceFitOwnWeights ==
    \A t \in Tasks :
        (Returned(t) /\ Recognized(ret[t].target_platforms) # {}) =>
            LET weighted == OwnWeighted(ret[t].content, ret[t].target_platforms)
            IN  REq(ret[t].metrics.audience_fit, RDivInt(RSum(weighted), Len(weighted)))

\* the entries of a platform list that name a recognized platform
RecognizedEntries(platforms) == SelectSeq(platforms, LAMBDA p : p \in Platforms)

\* C8: an unrecognized platform never fails the request (only a text
\* without terms does); it gets no entry in optimal_posting_times, whose
\* keys are exactly the recognized requested platforms, and no score in
\* audience_fit, which has one score per recognized entry and is the
\* no-score default 0.5 when no entry is recognized.
C8_UnknownPlatformIgnored ==
    \A t \in Tasks :
        /\ RaisedInMetrics(t) => Terms(ret[t].content) = <<>>
        /\ Returned(t) =>
            /\ DOMAIN ret[t].metrics.optimal_posting_times = Recognized(ret[t].target_platforms)
            /\ Len(FitScores(ret[t].content, ret[t].target_platforms))
                 = Len(RecognizedEntries(ret[t].target_platforms))
            /\ Recognized(ret[t].target_platforms) = {} =>
                 REq(ret[t].metrics.audience_fit, R(1, 2))

\* a record returned for a list with an unrecognized and a recognized platform
C8_Witness ==
    \E t \in Tasks :
        /\ Returned(t)
        /\ "tiktok" \in Range(ret[t].target_platforms)
        /\ Recognized(ret[t].target_platforms) # {}

\* C9: for a non-empty text and a non-empty platform list the analysis
\* never raises.
C9_NeverRaises ==
    \A t \in Tasks :
        ~(/\ RaisedInMetrics(t)
          /\ ret[t].content # <<>>
          /\ ret[t].target_platforms # <<>>)

Got(t, kind) == ret[t].kind = kind

\* C11: self-similarity is maximal.  For a text A whose originality has just
\* been computed on the instance, the originality computed after A is added
\* to the cache is less than or equal to it (its similarity is greater than
\* or equal); and a page analyzed again, its text being in the cache already,
\* has originality 0.
C11_SelfSimilarityMaximal ==
    \A t \in Tasks :
        /\ (Got(t, "factors") /\ ret[t].failing = {}) =>
              RLe(_check_originality_skipping(
                      ret[t].content, vocabulary,
                      Put(content_cache, Uuid4(content_cache), ret[t].content), {}),
                  ret[t].originality)
        /\ (Returned(t) /\ \E k \in DOMAIN ret[t].before : ret[t].before[k] = ret[t].content) =>
              REq(_check_originality_skipping(ret[t].content, VocabOf(t), ret[t].before, {}),
                  RInt(0))

\* a text partly similar to the cached ones: its originality is strictly
\* between 0 and 1 before it is added and 0 afterwards
C11_Witness ==
    \E t \in Tasks :
        /\ Got(t, "factors") /\ ret[t].failing = {}
        /\ DOMAIN content_cache # {}
        /\ ~REq(ret[t].originality, RInt(0)) /\ ~REq(ret[t].originality, RInt(1))
        /\ REq(_check_originality_skipping(
                   ret[t].content, vocabulary,
                   Put(content_cache, Uuid4(content_cache), ret[t].content), {}),
               RInt(0))

\* C12: a call of _generate_hashtags leaves content_cache and the fitted
\* state of the shared vectorizer as they were.
C12_HashtagsLeaveIndex ==
    \A t \in Tasks :
        Got(t, "hashtags") =>
            /\ content_cache = ret[t].cache_before
            /\ vocabulary = ret[t].vocabulary_before

\* the tags are n <= 5 term tags of the text followed by m <= 2 static tags
\* of the content type, in the table's order
TagsWellFormed(tags, content, content_type) ==
    /\ Len(tags) <= 7
    /\ \E n \in 0..5, m \in 0..2 :
          /\ Len(tags) = n + m
          /\ m <= Len(TypeHashtags(content_type))
          /\ \A i \in 1..n : tags[i][1] = "#" /\ tags[i][2] \in TermSet(content)
          /\ \A j \in 1..m : tags[n + j] = TypeHashtags(content_type)[j]

\* C13: hashtag_recommendations never has more than 7 entries: at most 5
\* term tags, each prefixed with '#', followed by at most 2 static tags of
\* the content type, for every text and content type.
C13_AtMostSevenHashtags ==
    \A t \in Tasks :
        /\ Got(t, "hashtags") =>
              TagsWellFormed(ret[t].value, ret[t].content, ret[t].content_type)
        /\ Returned(t) =>
              TagsWellFormed(ret[t].metrics.hashtag_recommendations,
                             ret[t].content, ret[t].content_type)

\* seven tags for a text of more than five terms and a content type of
\* three static tags
C13_Witness ==
    \E t \in Tasks :
        /\ Got(t, "hashtags")
        /\ Cardinality(TermSet(ret[t].content)) > 5
        /\ Len(TypeHashtags(ret[t].content_type)) > 2
        /\ Len(ret[t].value) = 7

\* how many keywords of a category occur in the text
KeywordCount(content, category) ==
    Cardinality({k \in Keywords(category) : Contains(content, k)})

\* C14: _determine_category returns the category with the highest keyword
\* count, the first-declared one among equals (technology, business,
\* lifestyle, education), and "general" when every count is zero; a text
\* made only of "strategy" is "business".
C14_CategoryByCount ==
    \A t \in Tasks :
        Got(t, "category") =>
            LET content == ret[t].content
                order   == <<"technology", "business", "lifestyle", "education">>
            IN  /\ ret[t].value = "general" <=>
                      \A i \in 1..4 : KeywordCount(content, order[i]) = 0
                /\ \A i \in 1..4 :
                      ret[t].value = order[i] <=>
                          /\ KeywordCount(content, order[i]) > 0
                          /\ \A j \in 1..4 :
                                KeywordCount(content, order[j]) <= KeywordCount(content, order[i])
                          /\ \A j \in 1..(i - 1) :
                                KeywordCount(content, order[j]) < KeywordCount(content, order[i])
                /\ content \in {<<"strategy.">>, <<"strategy.", "strategy.">>} =>
                      ret[t].value = "business"

\* technology and business have one keyword each in the text, and the
\* first-declared of the two is returned
C14_Witness ==
    \E t \in Tasks :
        /\ Got(t, "category")
        /\ KeywordCount(ret[t].content, "technology") = 1
        /\ KeywordCount(ret[t].content, "business") = 1
        /\ ret[t].value = "technology"

\* C15: on an empty text every factor of virality and quality is 0.0.
C15_EmptyTextAllZero ==
    \A t \in Tasks :
        (Got(t, "factors") /\ ret[t].content = <<>>) =>
            \A f \in {"emotional", "shareability", "uniqueness", "timeliness",
                       "readability", "structure", "engagement", "originality"} :
                REq(ret[t][f], RInt(0))

\* C15, amended: on an empty text no factor raises; emotional tone,
\* shareability, readability, structure and predicted engagement are 0.0,
\* timeliness is its no-year value 0.5, and originality (and uniqueness,
\* which is the same call) is 1.0, or the failure default 0.5 when the
\* cache is non-empty and the vectorizer unfitted.
C15_EmptyTextFactors ==
    \A t \in Tasks :
        (Got(t, "factors") /\ ret[t].content = <<>>) =>
            /\ \A f \in {"emotional", "shareability", "readability", "structure",
                          "engagement"} :
                  REq(ret[t][f], RInt(0))
            /\ REq(ret[t].timeliness, R(1, 2))
            /\ \A f \in {"originality", "uniqueness"} :
                  REq(ret[t][f],
                      IF DOMAIN content_cache # {} /\ ~vocabulary.fitted
                      THEN R(1, 2) ELSE RInt(1))

\* the factors of the empty text, computed against a non-empty cache
C15_Witness ==
    \E t \in Tasks :
        /\ Got(t, "factors") /\ ret[t].content = <<>>
        /\ DOMAIN content_cache # {}

\* C16: when vectorizing fails while the cache is non-empty, on the new
\* text or on every cached text, originality is the neutral 0.5.
C16_FailureGivesNeutral ==
    \A t \in Tasks :
        (/\ Got(t, "factors")
         /\ DOMAIN content_cache # {}
         /\ (~vocabulary.fitted \/ ret[t].failing = DOMAIN content_cache)) =>
            REq(ret[t].originality, R(1, 2))

\* the score (weight * (ideal - deviation) + the bonuses' tenths * ideal) /
\* (10 * ideal), at most 1, for a length weight and bonuses in tenths
TenthsScore(word_count, ideal, weight, bonus_tenths) ==
    LET deviation == IF Abs(word_count - ideal) < ideal THEN Abs(word_count - ideal) ELSE ideal
        tenths    == weight * (ideal - deviation) + bonus_tenths * ideal
    IN  IF tenths >= 10 * ideal THEN RInt(1) ELSE R(tenths, 10 * ideal)

\* C17: the Twitter score is min(1.0, 0.5*length_score + 0.2*[the text
\* contains '?'] + 0.3*[the lower-cased text contains follow, retweet, like
\* or share]) with length_score = 1 - min(|word_count - 250| / 250, 1); it is
\* a function of the text alone, whatever the content type of the call.
C17_TwitterScore ==
    \A t \in Tasks :
        Got(t, "platform") =>
            LET content  == ret[t].content
                question == IF \E i \in 1..Len(content) :
                                  content[i] # PARA /\ "?" \in Lexicon[content[i]].marks
                            THEN 2 ELSE 0
                action   == IF \E i \in 1..Len(content) :
                                  /\ content[i] # PARA
                                  /\ Lexicon[content[i]].subs
                                        \cap {"follow", "retweet", "like", "share"} # {}
                            THEN 3 ELSE 0
            IN  REq(ret[t].twitter,
                    TenthsScore(Len(Words(content)), 250, 5, question + action))

\* a text of 250 words with a question mark and a call to action scores 1.0
C17_Witness ==
    \E t \in Tasks :
        /\ Got(t, "platform")
        /\ Len(Words(ret[t].content)) = 250
        /\ HasMark(ret[t].content, "?")
        /\ REq(ret[t].twitter, RInt(1))

\* C18: the LinkedIn score uses the ideal length 1500 for an article, 800
\* for a post, 200 for an update and 800 for any other content type, and is
\* min(1.0, 0.4*length_score + 0.3*[the text has a blank-line paragraph
\* separator] + 0.3*[it contains a professional term]); an article of 1500
\* words in one paragraph without a professional term scores 0.4.
C18_LinkedinScore ==
    \A t \in Tasks :
        Got(t, "platform") =>
            LET content    == ret[t].content
                ideal      == IF ret[t].content_type = "article" THEN 1500
                              ELSE IF ret[t].content_type = "update" THEN 200
                              ELSE 800
                paragraphs == IF \E i \in 1..Len(content) : content[i] = PARA THEN 3 ELSE 0
                terms      == IF \E i \in 1..Len(content) :
                                    /\ content[i] # PARA
                                    /\ Lexicon[content[i]].subs
                                          \cap {"experience", "professional", "industry",
                                                "business", "strategy"} # {}
                              THEN 3 ELSE 0
            IN  /\ REq(ret[t].linkedin,
                       TenthsScore(Len(Words(content)), ideal, 4, paragraphs + terms))
                /\ (content = Rep("wood", 1500) /\ ret[t].content_type = "article") =>
                       REq(ret[t].linkedin, R(4, 10))

\* the article of 1500 words in one paragraph has been scored
C18_Witness ==
    \E t \in Tasks :
        /\ Got(t, "platform")
        /\ ret[t].content = Rep("wood", 1500)
        /\ ret[t].content_type = "article"
        /\ REq(ret[t].linkedin, R(4, 10))

\* how far the averages of a text with words are from 15 words a sentence
\* and from 5 characters a word
SentenceDeviation(text) ==
    RAbs(RSub(R(Len(Words(text)), SentenceCount(text)), RInt(15)))

WordDeviation(text) ==
    RAbs(RSub(R(SumOver(Words(text), "chars"), Len(Words(text))), RInt(5)))

\* C19: readability is in [0,1] and penalizes deviation from 15 words a
\* sentence and 5 characters a word in either direction: a text whose
\* averages are at least as far from the optimum as another text's, in both
\* respects, scores no higher than that text.
C19_ReadabilityPenalizesDeviation ==
    \A t \in Tasks :
        (Got(t, "readability") /\ Words(ret[t].content) # <<>>) =>
            /\ InUnit(ret[t].value)
            /\ \A other \in UnitTexts :
                  (/\ Words(other) # <<>>
                   /\ RLe(SentenceDeviation(other), SentenceDeviation(ret[t].content))
                   /\ RLe(WordDeviation(other), WordDeviation(ret[t].content))) =>
                      RLe(ret[t].value, _calculate_readability(other))

\* C20: a call of analyze_content that raises, in the crawl or in the
\* metric computation, adds no entry to content_cache: the step that ends
\* the call with the exception leaves the cache as it was.
C20_RaiseLeavesCache ==
    [][ \A t \in Tasks :
            (pc[t] = "crawling" /\ ret'[t].kind = "raised") =>
                /\ content_cache' = content_cache
                /\ pc'[t] = "idle"
      ]_vars

\* a call has raised in the metric computation and another in the crawl,
\* on an instance whose cache holds a text
C20_Witness ==
    /\ DOMAIN content_cache # {}
    /\ \E t1, t2 \in Tasks :
          /\ RaisedInMetrics(t1)
          /\ ret[t2].kind = "raised" /\ ret[t2].stage = "crawl"

\* the request's platform_scores of the recognized entries of platforms, in
\* the order of the list
RECURSIVE RequestScores(_, _, _)
RequestScores(content, content_type, platforms) ==
    IF platforms = <<>> THEN <<>>
    ELSE (IF Head(platforms) \in Platforms
          THEN <<PlatformScores(content, content_type)[Head(platforms)]>>
          ELSE <<>>)
         \o RequestScores(content, content_type, Tail(platforms))

\* C21: audience_fit is computed from the per-platform scores that feed
\* engagement_score in the same request: the LinkedIn score in it is the one
\* for the request's content_type.  (The weights are paired with the scores
\* as the code pairs them.)
C21_AudienceFitOfRequestScores ==
    \A t \in Tasks :
        (Returned(t) /\ Recognized(ret[t].target_platforms) # {}) =>
            LET scores   == RequestScores(ret[t].content, ret[t].content_type,
                                          ret[t].target_platforms)
                weighted == [i \in 1..Len(scores) |->
                                RMul(scores[i], PlatformWeight(ret[t].target_platforms[i]))]
            IN  REq(ret[t].metrics.audience_fit, RDivInt(RSum(weighted), Len(weighted)))

\* the fitted states earlier calls can have left the vectorizer in
EarlierVocabularies ==
    {UNFITTED} \cup {Fitted(TermSet(x)) : x \in {y \in HashTexts : ~FitRaises(y)}}

\* C22: when an analysis compares texts (the cache is non-empty), the
\* vectorizer has been fitted on the analyzed text by _generate_hashtags:
\* the vectorizer is left fitted on that text, and virality and quality are
\* the same whatever the vectorizer was fitted on by earlier calls.
C22_OriginalityOnOwnVocabulary ==
    \A t \in Tasks :
        (Returned(t) /\ DOMAIN ret[t].before # {}) =>
            /\ vocabulary = Fitted(TermSet(ret[t].content))
            /\ \A earlier \in EarlierVocabularies :
                  LET m == _generate_content_metrics(
                               ret[t].content, ret[t].target_platforms, ret[t].content_type,
                               earlier, ret[t].before, FALSE)
                  IN  /\ REq(m.metrics.content_quality_score,
                             ret[t].metrics.content_quality_score)
                      /\ REq(m.metrics.virality_potential,
                             ret[t].metrics.virality_potential)

\* an analysis against a cached text, whose originality would be another
\* one on the vocabulary of that cached text
C22_Witness ==
    \E t \in Tasks :
        /\ Returned(t)
        /\ \E k \in DOMAIN ret[t].before :
              ~REq(_check_originality(ret[t].content, VocabOf(t), ret[t].before),
                   _check_originality(ret[t].content, Fitted(TermSet(ret[t].before[k])),
                                      ret[t].before))

\* the crawl attempts extract_project has made or is making
Attempts ==
    Cardinality({ i \in 1..Len(crawl_log) : crawl_log[i].event = "arun" })
    + (IF crawl_pc = "arun" THEN 1 ELSE 0)

\* the entries of crawl_log that record a crawl attempt with outcome `kind`
ArunsOf(kind) ==
    { i \in 1..Len(crawl_log) :
          crawl_log[i].event = "arun" /\ crawl_log[i].outcome = kind }

\* entry i of crawl_log is a sleep of `seconds`, and after it extract_project
\* is asleep, or crawling again with the next attempt
RetriedAfter(i, seconds) ==
    /\ i + 1 <= Len(crawl_log)
    /\ crawl_log[i + 1].event = "sleep"
    /\ crawl_log[i + 1].seconds = seconds
    /\ IF i + 2 <= Len(crawl_log)
       THEN /\ crawl_log[i + 2].event = "arun"
            /\ crawl_log[i + 2].attempt = crawl_log[i].attempt + 1
       ELSE \/ crawl_pc = "sleeping"
            \/ crawl_pc = "arun" /\ attempt = crawl_log[i].attempt + 1

\* entry i of crawl_log is the last one and extract_project has ended
FinalAt(i) == i = Len(crawl_log) /\ crawl_pc = "done"

\* C23: extract_project, once called, ends, and it makes at most 5 crawl
\* attempts, whatever the crawler raises or returns
C23_TerminatesWithinFiveAttempts ==
    /\ [](Attempts <= 5)
    /\ (crawl_pc # "idle") ~> (crawl_pc = "done")

\* extract_project has ended after five crawl attempts
C23_Witness == crawl_pc = "done" /\ Attempts = 5

\* C24: a crawl attempt that raises is followed, on attempts 1 to 4, by a
\* wait of min(2^attempt, 30) seconds (attempt counted from 0) and another
\* attempt; when the 5th attempt raises, extract_project raises
C24_ExceptionBackoff ==
    \A i \in ArunsOf("raise") :
        IF crawl_log[i].attempt < 4
        THEN /\ RetriedAfter(i, IF 2 ^ crawl_log[i].attempt < 30
                                THEN 2 ^ crawl_log[i].attempt ELSE 30)
             /\ crawl_log[i + 1].seconds = <<1, 2, 4, 8>>[crawl_log[i].attempt + 1]
        ELSE FinalAt(i) /\ crawl_ret.kind = "raised"

\* all five attempts raised: waits of 1, 2, 4 and 8 seconds, then the raise
C24_Witness ==
    /\ crawl_pc = "done"
    /\ crawl_ret.kind = "raised"
    /\ Cardinality(ArunsOf("raise")) = 5
    /\ crawl_log[8].seconds = 8

C25_FailureWitness ==
    /\ crawl_pc = "done"
    /\ Len(crawl_log) = 3
    /\ crawl_log[1].outcome = "rate_limited"
    /\ crawl_log[3].outcome = "failure"

\* C26: every sleep of extract_project, after an exception or after a
\* rate-limit response, is followed by another crawl attempt
C26_NoWaitAfterLastAttempt ==
    \A i \in 1..Len(crawl_log) :
        crawl_log[i].event = "sleep" =>
            IF i < Len(crawl_log)
            THEN crawl_log[i + 1].event = "arun"
            ELSE crawl_pc \in {"sleeping", "arun"}

\* C27: extract_project's call of process_result gives a DIYProject when the
\* extracted content is a dictionary that conforms to the DIYProject schema,
\* or a non-empty list whose first element is one, and None only when the
\* content is missing, empty, not a dictionary or does not conform
C27_ConformingDictGivesProject ==
    \A i \in ArunsOf("success") :
        LET content == crawl_log[i].content
            dictionary == \/ content.type = "dict"
                          \/ content.type = "list" /\ content.first = "dict"
        IN  crawl_pc = "done" =>
                (crawl_ret.value = "project" <=> (dictionary /\ content.conforms))

\* the URLs whose extract_project call is in progress
InProgress == { u \in Urls : task_pc[u] = "extract" }

\* process_url has ended for u with one of its three lines printed
Processed(u) ==
    /\ task_pc[u] = "done"
    /\ report[u].kind \in {"success", "failure", "error"}

\* C28: at most 3 extract_project calls are in progress at any time, and
\* every permit taken is released: the permits out are those of the calls
\* in progress, also after a call has raised
C28_AtMostThreeInProgress ==
    /\ Cardinality(InProgress) <= 3
    /\ semaphore = 3 - Cardinality(InProgress)

\* three calls in progress, none left to take, after one call has raised
C28_Witness ==
    /\ Cardinality(InProgress) = 3
    /\ semaphore = 0
    /\ \E u \in Urls : task_pc[u] = "done" /\ report[u].got = "raise"

\* C29: every URL is eventually processed to completion, and once
\* extract_project has raised for one URL, all the URLs are still processed
C29_EveryUrlProcessed ==
    /\ <>(\A u \in Urls : Processed(u))
    /\ \A u \in Urls :
           (task_pc[u] = "done" /\ report[u].got = "raise")
               ~> (\A v \in Urls : Processed(v))

\* all URLs processed, one as an error after a raise, one as a failure
C29_Witness ==
    /\ \A u \in Urls : Processed(u)
    /\ \E u \in Urls : report[u].got = "raise" /\ report[u].kind = "error"
    /\ \E u \in Urls : report[u].kind = "failure"

=============================================================================
